---- MODULE Spec2Model ----
(***************************************************************************)
(* SarClient (src/SarAsio/sarclient.cpp): the user-mode engine of the      *)
(* SynchronousAudioRouter driver.  The model covers the per-cycle tick,    *)
(* the mux/demux codec, the notification handle manager and the session   *)
(* lifecycle, together with the kernel driver that shares the endpoint     *)
(* registers and the ring buffers with the engine.                         *)
(*                                                                         *)
(* Three threads of control are interleaved: the host audio callback       *)
(* (tick), the control thread (start/stop) and the driver.  tick holds     *)
(* _registersLock from entry to return; between two accesses of the shared *)
(* registers the driver may run.                                           *)
(***************************************************************************)
EXTENDS Integers, Sequences, FiniteSets, TLC

VARIABLES
    endpoints,                      \* _driverConfig.endpoints: type per endpoint
    asioBuffers,                    \* _bufferConfig.asioBuffers[bufferIndex][i][ti]
    device,                         \* _device: "invalid", "null" or "open"
    completionPort,                 \* _completionPort: "null" or "open"
    registers,                      \* _registers: "null" or "mapped"
    sharedBuffer,                   \* _sharedBuffer: "null" or "mapped"
    sharedBufferSize,               \* _sharedBufferSize
    regs,                           \* the register array in shared memory
    ring,                           \* the bytes of the mapped shared region
    handleQueueStarted,             \* _handleQueueStarted
    handleQueue,                    \* the SAR_WAIT_HANDLE_QUEUE request and its completion
    notificationHandles,            \* _notificationHandles
    updateSampleRateOnTick,         \* _updateSampleRateOnTick
    mmEnumerator,                   \* _mmEnumerator: "null" or "set"
    mmNotificationClient,           \* _mmNotificationClient: "null" or "set"
    mmNotificationClientRegistered, \* _mmNotificationClientRegistered
    registersLock,                  \* _registersLock: "free" or "tick" (held by a tick)
    tickpc,                         \* where the tick thread is
    tick,                           \* the locals of the running tick
    ctrlpc,                         \* where the control thread is inside start()/stop()
    signalled,                      \* per endpoint, the SetEvent calls of the current tick
    path,                           \* per endpoint, the branch the current tick took
    stopCalls,                      \* stop() calls completed since start() was last called
    call                            \* one call of the codec or of the handle manager on its own

vars == <<endpoints, asioBuffers, device, completionPort, registers, sharedBuffer,
          sharedBufferSize, regs, ring, handleQueueStarted, handleQueue,
          notificationHandles, updateSampleRateOnTick, mmEnumerator,
          mmNotificationClient, mmNotificationClientRegistered, registersLock,
          tickpc, tick, ctrlpc, signalled, path, stopCalls, call>>

sessionVars == <<device, completionPort, registers, sharedBuffer, sharedBufferSize,
                 mmEnumerator, mmNotificationClient, mmNotificationClientRegistered>>

(***************************************************************************)
(* Bounds of the model.                                                    *)
(***************************************************************************)
\* generation numbers run over 0..MaxGeneration
MaxGeneration == 1
\* DWORD arithmetic is modular; the model keeps the wrap-around with a 16-bit word
WordMod == 65536
\* the size of the mapped region the driver reports (response.actualSize)
ActualSize == 8
\* stopCalls counts up to MaxStopCalls and stays there
MaxStopCalls == 2

\* _bufferConfig.periodFrameSize and _bufferConfig.sampleSize
periodFrameSize == 2
sampleSize == 1

\* what a host buffer holds when the host hands it over: bytes of an earlier cycle
Leftover == 255
\* what a read outside the mapped region may return
GarbageBytes == {0, Leftover - 1}

BufferIndexes == {0, 1}

(***************************************************************************)
(* The generation word: an epoch number and an active bit.                 *)
(***************************************************************************)
MAKE_GENERATION(number, active) == 2 * number + active
GENERATION_NUMBER(gen) == gen \div 2
GENERATION_IS_ACTIVE(gen) == gen % 2 = 1

GenerationValues ==
    {MAKE_GENERATION(n, a) : n \in 0..MaxGeneration, a \in {0, 1}}

\* DWORD addition and multiplication
DwordAdd(a, b) == (a + b) % WordMod
DwordMul(a, b) == (a * b) % WordMod
Min(a, b) == IF a < b THEN a ELSE b

(***************************************************************************)
(* Endpoint configuration and host buffers.                                *)
(***************************************************************************)
\* the endpoint lists a session is constructed with
EndpointConfigs == {<<"Playback">>, <<"Recording">>}

\* which target channels of an endpoint the host routes (a null pointer otherwise)
Routings == {<<TRUE, TRUE, FALSE>>}

Endpoints == 1..Len(endpoints)

asioBufferSize == DwordMul(periodFrameSize, sampleSize)

Zeros(n) == [k \in 1..n |-> 0]
NullBuffer == <<>>

\* the samples the host supplies for recording, distinct per channel and byte
HostInput(ti) == [k \in 1..asioBufferSize |-> 40 + 10 * ti + k]
HostLeftover == [k \in 1..asioBufferSize |-> Leftover]

HostBuffers(type, routing) ==
    [ti \in 1..Len(routing) |->
        IF ~routing[ti] THEN NullBuffer
        ELSE IF type = "Playback" THEN HostLeftover ELSE HostInput(ti)]

\* the ring as the audio clients leave it before a cycle: every byte distinct and non-zero
RingInit == [a \in 0..(ActualSize - 1) |-> 10 + a]

ZeroRegister ==
    [generation |-> 0, activeChannelCount |-> 0, bufferOffset |-> 0,
     bufferSize |-> 0, positionRegister |-> 0, notificationCount |-> 0]

NoHandle == [generation |-> 0, handle |-> 0]
IdleQueue == [state |-> "idle", responses |-> <<>>]
\* of the locals of lines 66-75 the model keeps what the iteration reads after the copy;
\* formatChangeEvents counts the SAR_SEND_FORMAT_CHANGE_EVENT requests of the tick,
\* updateCalls its calls of updateNotificationHandles, and polled is what the poll of
\* such a call found
NoTick == [bufferIndex |-> 0, i |-> 0, generation |-> 0, nextPositionRegister |-> 0,
           notificationDue |-> FALSE, hasUpdatedNotificationHandles |-> FALSE,
           formatChangeEvents |-> 0, polled |-> "none", updateCalls |-> 0]

\* no call is under examination
NoCall == [op |-> "none"]

\* SarClient::SarClient for one of the endpoint lists of configs
ConstructedOver(configs) ==
    /\ endpoints \in configs
    /\ \E routing \in Routings :
          asioBuffers = [b \in BufferIndexes |->
                            [i \in 1..Len(endpoints) |-> HostBuffers(endpoints[i], routing)]]
    /\ device = "invalid"
    /\ completionPort = "null"
    /\ registers = "null"
    /\ sharedBuffer = "null"
    /\ sharedBufferSize = 0
    /\ regs = [i \in 1..Len(endpoints) |-> ZeroRegister]
    /\ ring = RingInit
    /\ handleQueueStarted = FALSE
    /\ handleQueue = IdleQueue
    /\ notificationHandles = <<>>
    /\ updateSampleRateOnTick = FALSE
    /\ mmEnumerator = "null"
    /\ mmNotificationClient = "null"
    /\ mmNotificationClientRegistered = FALSE
    /\ registersLock = "free"
    /\ tickpc = "idle"
    /\ tick = NoTick
    /\ ctrlpc = "idle"
    /\ signalled = [i \in 1..Len(endpoints) |-> <<>>]
    /\ path = [i \in 1..Len(endpoints) |-> "none"]
    /\ stopCalls = 0

Constructed == ConstructedOver(EndpointConfigs)

Init ==
    /\ Constructed
    /\ call = NoCall

(***************************************************************************)
(* The mux/demux codec.  Ring pointers are byte addresses relative to the *)
(* start of the mapped region; mem is the contents of that region.  A read *)
(* outside the region returns the byte garbage, a write outside it is not  *)
(* seen in mem; both set the result's oob.                                 *)
(***************************************************************************)
ReadByte(mem, a, garbage) == IF a \in DOMAIN mem THEN mem[a] ELSE garbage

\* memcpy((char *)(targetBuffers[i]) + j, buf, sampleSize)
CopyToTarget(target, j, mem, buf, size, garbage) ==
    [k \in 1..Len(target) |->
        IF k - 1 >= j /\ k - 1 < j + size
        THEN ReadByte(mem, buf + (k - 1 - j), garbage)
        ELSE target[k]]

\* memcpy(buf, (char *)(targetBuffers[i]) + j, sampleSize)
CopyToRing(mem, buf, target, j, size) ==
    [a \in DOMAIN mem |->
        IF a >= buf /\ a < buf + size /\ (j + (a - buf) + 1) \in DOMAIN target
        THEN target[j + (a - buf) + 1]
        ELSE mem[a]]

RangeOutside(mem, buf, size) == \E a \in buf..(buf + size - 1) : a \notin DOMAIN mem

\* the inner loop of demux for one channel; c holds the values that do not change
RECURSIVE DemuxFrames(_, _, _, _, _, _)
DemuxFrames(j, buf, remaining, target, oob, c) ==
    IF j < c.targetSize /\ remaining >= c.sourceStride
    THEN LET copied == CopyToTarget(target, j, c.mem, buf, c.sampleSize, c.garbage)
             outside == \/ RangeOutside(c.mem, buf, c.sampleSize)
                        \/ j + c.sampleSize > Len(target)
             left == remaining - c.sourceStride
         IN  IF left = 0
             THEN DemuxFrames(j + c.sampleSize, c.second, c.secondSize,
                              copied, oob \/ outside, c)
             ELSE DemuxFrames(j + c.sampleSize, buf + c.sourceStride, left,
                              copied, oob \/ outside, c)
    ELSE [buffer |-> target, oob |-> oob]

\* the stride taken from the channel count after it was clamped to ntargets
SourceStrideAfterClamp(size, nsources, ntargets) == size * Min(nsources, ntargets)

\* lines 488 and 531: the distance between two samples of a channel in the ring
SourceStride(size, nsources, ntargets) == size * nsources

\* SarClient::demux; the result is the target buffers and whether an access left the region
Demux(muxBufferFirst, firstSize, muxBufferSecond, secondSize, targetBuffers, ntargets, nsources, targetSize, size, mem, garbage) ==
    LET sourceStride == SourceStride(size, nsources, ntargets)
        n == IF nsources > ntargets THEN ntargets ELSE nsources
        channel(i) ==
            IF i < n
            THEN IF targetBuffers[i + 1] = NullBuffer
                 THEN [buffer |-> NullBuffer, oob |-> FALSE]
                 ELSE DemuxFrames(0, muxBufferFirst + size * i, firstSize,
                                  targetBuffers[i + 1], FALSE,
                                  [targetSize |-> targetSize, sourceStride |-> sourceStride,
                                   sampleSize |-> size, mem |-> mem, garbage |-> garbage,
                                   second |-> muxBufferSecond + size * i,
                                   secondSize |-> secondSize])
            ELSE IF targetBuffers[i + 1] = NullBuffer
                 THEN [buffer |-> NullBuffer, oob |-> FALSE]
                 ELSE [buffer |-> [k \in 1..Len(targetBuffers[i + 1]) |->
                                      IF k <= targetSize THEN 0 ELSE targetBuffers[i + 1][k]],
                       oob |-> targetSize > Len(targetBuffers[i + 1])]
    IN  [targets |-> [ti \in 1..ntargets |-> channel(ti - 1).buffer],
         oob |-> \E ti \in 1..ntargets : channel(ti - 1).oob]

\* the inner loop of mux for one channel
RECURSIVE MuxFrames(_, _, _, _, _, _)
MuxFrames(j, buf, remaining, mem, oob, c) ==
    IF j < c.targetSize /\ remaining >= c.sourceStride
    THEN LET written == CopyToRing(mem, buf, c.target, j, c.sampleSize)
             outside == \/ RangeOutside(mem, buf, c.sampleSize)
                        \/ j + c.sampleSize > Len(c.target)
             left == remaining - c.sourceStride
         IN  IF left = 0
             THEN MuxFrames(j + c.sampleSize, c.second, c.secondSize,
                            written, oob \/ outside, c)
             ELSE MuxFrames(j + c.sampleSize, buf + c.sourceStride, left,
                            written, oob \/ outside, c)
    ELSE [mem |-> mem, oob |-> oob]

\* the loop of mux over the channels i..n-1
RECURSIVE MuxChannels(_, _, _, _, _)
MuxChannels(i, n, mem, oob, c) ==
    IF i < n
    THEN IF c.targetBuffers[i + 1] = NullBuffer
         THEN MuxChannels(i + 1, n, mem, oob, c)
         ELSE LET r == MuxFrames(0, c.first + c.sampleSize * i, c.firstSize, mem, oob,
                                 [targetSize |-> c.targetSize,
                                  sourceStride |-> c.sourceStride,
                                  sampleSize |-> c.sampleSize,
                                  target |-> c.targetBuffers[i + 1],
                                  second |-> c.second + c.sampleSize * i,
                                  secondSize |-> c.secondSize])
              IN  MuxChannels(i + 1, n, r.mem, r.oob, c)
    ELSE [mem |-> mem, oob |-> oob]

\* SarClient::mux; the result is the region's contents and whether an access left the region
Mux(muxBufferFirst, firstSize, muxBufferSecond, secondSize, targetBuffers, ntargets, nsources, targetSize, size, mem) ==
    MuxChannels(0, IF nsources > ntargets THEN ntargets ELSE nsources, mem, FALSE,
                [first |-> muxBufferFirst, firstSize |-> firstSize,
                 second |-> muxBufferSecond, secondSize |-> secondSize,
                 targetBuffers |-> targetBuffers, targetSize |-> targetSize,
                 sourceStride |-> SourceStride(size, nsources, ntargets),
                 sampleSize |-> size])

\* ZeroMemory over every entry of the array, the null ones too
ZeroEveryTarget(buffers, size) == [ti \in 1..Len(buffers) |-> Zeros(size)]

\* ZeroMemory over every non-null target buffer of an endpoint
ZeroTargets(buffers, size) ==
    [ti \in 1..Len(buffers) |->
        IF buffers[ti] = NullBuffer THEN NullBuffer
        ELSE [k \in 1..Len(buffers[ti]) |-> IF k <= size THEN 0 ELSE buffers[ti][k]]]

(***************************************************************************)
(* The session: start() and stop().                                        *)
(***************************************************************************)
Session ==
    [device |-> device, completionPort |-> completionPort, registers |-> registers,
     sharedBuffer |-> sharedBuffer, sharedBufferSize |-> sharedBufferSize,
     mmEnumerator |-> mmEnumerator, mmNotificationClient |-> mmNotificationClient,
     mmNotificationClientRegistered |-> mmNotificationClientRegistered,
     notificationHandles |-> notificationHandles, handleQueue |-> handleQueue]

SetSession(s) ==
    /\ device' = s.device
    /\ completionPort' = s.completionPort
    /\ registers' = s.registers
    /\ sharedBuffer' = s.sharedBuffer
    /\ sharedBufferSize' = s.sharedBufferSize
    /\ mmEnumerator' = s.mmEnumerator
    /\ mmNotificationClient' = s.mmNotificationClient
    /\ mmNotificationClientRegistered' = s.mmNotificationClientRegistered
    /\ notificationHandles' = s.notificationHandles
    /\ handleQueue' = s.handleQueue

\* stop(): the device notification client, the enumerator
StopNotificationClient(s) ==
    [s EXCEPT !.mmNotificationClientRegistered = FALSE,
              !.mmNotificationClient = "null",
              !.mmEnumerator = "null"]

\* the critical section of stop() without the reset of _sharedBufferSize
StopDeviceKeepsSize(s) ==
    [s EXCEPT !.device = "invalid", !.registers = "null", !.sharedBuffer = "null"]

\* stop(): what runs between _registersLock.lock() and unlock().  CancelIoEx fails
\* the request that is in flight, CloseHandle closes the device.
StopDevice(s) ==
    [s EXCEPT !.device = "invalid",
              !.registers = "null",
              !.sharedBuffer = "null",
              !.sharedBufferSize = 0,
              !.handleQueue = IF s.device = "open" /\ s.handleQueue.state = "pending"
                              THEN [state |-> "failed", responses |-> <<>>]
                              ELSE s.handleQueue]

\* stop(): the completion port; closing it drops what is queued on it
StopCompletionPort(s) ==
    IF s.completionPort # "null"
    THEN [s EXCEPT !.completionPort = "null", !.handleQueue = IdleQueue]
    ELSE s

\* the steps of start() that may fail, in order; "none" is a start that succeeds
StartFailures ==
    {"setup", "create", "port", "enumerator", "client", "register", "layout",
     "endpoints", "none"}

\* openControlDevice()
OpenControlDevice(s, fail) ==
    CASE fail = "setup" -> s
      [] fail = "create" -> [s EXCEPT !.device = "invalid"]
      [] fail = "port" -> [s EXCEPT !.device = "null", !.completionPort = "null"]
      [] OTHER -> [s EXCEPT !.device = "open", !.completionPort = "open",
                            !.notificationHandles =
                                [i \in 1..Len(endpoints) |-> NoHandle]]

\* openMmNotificationClient()
OpenMmNotificationClient(s, fail) ==
    CASE fail = "enumerator" -> s
      [] fail = "client" -> [s EXCEPT !.mmEnumerator = "set"]
      [] fail = "register" -> [s EXCEPT !.mmEnumerator = "set",
                                        !.mmNotificationClient = "set"]
      [] OTHER -> [s EXCEPT !.mmEnumerator = "set", !.mmNotificationClient = "set",
                            !.mmNotificationClientRegistered = TRUE]

\* setBufferLayout()
SetBufferLayout(s, fail) ==
    IF fail = "layout" THEN s
    ELSE [s EXCEPT !.sharedBuffer = "mapped", !.sharedBufferSize = ActualSize,
                   !.registers = "mapped"]

\* start() up to the point where it returns or calls stop(): the session it has
\* built, and whether it goes on into stop()
StartResult(s, fail) ==
    LET a == OpenControlDevice(s, fail)
        b == OpenMmNotificationClient(a, fail)
        c == SetBufferLayout(b, fail)
    IN  IF fail \in {"setup", "create", "port"} THEN [session |-> a, unwind |-> FALSE]
        ELSE IF fail \in {"enumerator", "client", "register"}
             THEN [session |-> b, unwind |-> TRUE]
        ELSE IF fail \in {"layout", "endpoints"}
             THEN [session |-> c, unwind |-> TRUE]
        ELSE [session |-> c, unwind |-> FALSE]

tickVars == <<tickpc, tick, signalled, path, asioBuffers>>

\* start(), called by the host when no session is running; a start that fails after
\* openControlDevice goes on into stop()
Start(fail) ==
    /\ ctrlpc = "idle"
    /\ device # "open"
    /\ SetSession(StartResult(Session, fail).session)
    /\ ctrlpc' = IF StartResult(Session, fail).unwind THEN "unwind" ELSE "idle"
    /\ regs' = [i \in 1..Len(endpoints) |-> ZeroRegister]
    /\ ring' = RingInit
    /\ stopCalls' = 0
    /\ UNCHANGED <<endpoints, call, handleQueueStarted, updateSampleRateOnTick,
                   registersLock, tickVars>>

\* a stop() that does not wait for the lock
StopIgnoresLock == TRUE

\* _registersLock.lock() in stop(): the control thread goes on when no tick holds the lock
StopMayLock == registersLock = "free"

\* stop(), lines 217-242, called by the host or by a start() that failed: the
\* notification client is torn down, then, if _device is not INVALID_HANDLE_VALUE,
\* stop() waits for _registersLock and closes the device under it
StopBegin ==
    /\ ctrlpc \in {"idle", "unwind"}
    /\ IF device # "invalid"
       THEN /\ StopMayLock
            /\ SetSession(StopDevice(StopNotificationClient(Session)))
            /\ regs' = [i \in 1..Len(endpoints) |-> ZeroRegister]
            /\ ring' = RingInit
       ELSE /\ SetSession(StopNotificationClient(Session))
            /\ UNCHANGED <<regs, ring>>
    /\ ctrlpc' = "port"
    /\ UNCHANGED <<endpoints, call, handleQueueStarted, updateSampleRateOnTick,
                   registersLock, tickVars, stopCalls>>

\* stop(), lines 244-247
StopEnd ==
    /\ ctrlpc = "port"
    /\ SetSession(StopCompletionPort(Session))
    /\ ctrlpc' = "idle"
    /\ stopCalls' = Min(stopCalls + 1, MaxStopCalls)
    /\ UNCHANGED <<endpoints, call, regs, ring, handleQueueStarted, updateSampleRateOnTick,
                   registersLock, tickVars>>

(***************************************************************************)
(* The driver: sole writer of generation and of the configuration fields,  *)
(* and the other end of the handle queue.                                  *)
(***************************************************************************)
Layout(channels, offset, size, notifications) ==
    [activeChannelCount |-> channels, bufferOffset |-> offset, bufferSize |-> size,
     notificationCount |-> notifications]

\* the configurations the driver installs in an endpoint's register
Layouts ==
    {Layout(0, 0, 0, 0),
     Layout(0, 0, 4, 0),
     Layout(1, 0, 8, 2),
     Layout(2, 0, 8, 2),
     Layout(3, 0, 6, 2),
     Layout(3, 0, 4, 1),
     Layout(1, 4, 4, 1),
     Layout(1, 4, 8, 0),
     Layout(1, WordMod - 4, 8, 1)}

DriverSetGeneration(i, gen) ==
    /\ registers = "mapped"
    /\ regs[i].generation # gen
    /\ regs' = [regs EXCEPT ![i].generation = gen]
    /\ UNCHANGED <<endpoints, call, sessionVars, notificationHandles, handleQueue, ring,
                   handleQueueStarted, updateSampleRateOnTick, registersLock, ctrlpc,
                   tickVars, stopCalls>>

DriverConfigure(i, layout) ==
    /\ registers = "mapped"
    /\ regs' = [regs EXCEPT ![i].activeChannelCount = layout.activeChannelCount,
                            ![i].bufferOffset = layout.bufferOffset,
                            ![i].bufferSize = layout.bufferSize,
                            ![i].notificationCount = layout.notificationCount]
    /\ regs' # regs
    /\ UNCHANGED <<endpoints, call, sessionVars, notificationHandles, handleQueue, ring,
                   handleQueueStarted, updateSampleRateOnTick, registersLock, ctrlpc,
                   tickVars, stopCalls>>

\* the event handle the driver hands out for endpoint i at generation gen
HandleFor(i, gen) == 1 + (i - 1) * (2 * MaxGeneration + 2) + gen

\* SarHandleQueueResponse: associatedData is (endpointIndex << 32) | generation
Response(i) ==
    [endpointIndex |-> i - 1, generation |-> regs[i].generation,
     handle |-> HandleFor(i, regs[i].generation)]

\* what one completed SAR_WAIT_HANDLE_QUEUE request can carry: the handle of an
\* endpoint that has a client
Batches == {<<Response(i)>> : i \in {j \in Endpoints : GENERATION_IS_ACTIVE(regs[j].generation)}}

\* what DeviceIoControl(SAR_WAIT_HANDLE_QUEUE) can return to the engine
IoOutcomes ==
    {[status |-> "pending", responses |-> <<>>], [status |-> "error", responses |-> <<>>]}
    \cup {[status |-> "sync", responses |-> b] : b \in Batches}

DriverCompleteHandleQueue(batch) ==
    /\ device = "open"
    /\ handleQueue.state = "pending"
    /\ handleQueue' = [state |-> "completed", responses |-> batch]
    /\ UNCHANGED <<endpoints, call, sessionVars, notificationHandles, regs, ring,
                   handleQueueStarted, updateSampleRateOnTick, registersLock, ctrlpc,
                   tickVars, stopCalls>>

DriverFailHandleQueue ==
    /\ device = "open"
    /\ handleQueue.state = "pending"
    /\ handleQueue' = [state |-> "failed", responses |-> <<>>]
    /\ UNCHANGED <<endpoints, call, sessionVars, notificationHandles, regs, ring,
                   handleQueueStarted, updateSampleRateOnTick, registersLock, ctrlpc,
                   tickVars, stopCalls>>

\* NotificationClient::OnDeviceStateChanged for an endpoint of the router that became
\* active, delivered on a thread of the system while the client is registered
OnDeviceStateChanged ==
    /\ mmNotificationClientRegistered
    /\ updateSampleRateOnTick' = TRUE
    /\ UNCHANGED <<endpoints, call, sessionVars, notificationHandles, handleQueue, regs,
                   ring, handleQueueStarted, registersLock, ctrlpc, tickVars, stopCalls>>

(***************************************************************************)
(* The notification handle manager.                                        *)
(***************************************************************************)
\* the loop of processNotificationHandleUpdates cut short after one response
ProcessFirstUpdateOnly(handles, responses, k) ==
    IF k > Len(responses) THEN handles
    ELSE [handles EXCEPT ![responses[k].endpointIndex + 1] =
             [generation |-> responses[k].generation, handle |-> responses[k].handle]]

\* processNotificationHandleUpdates, from response k on
RECURSIVE ProcessNotificationHandleUpdates(_, _, _)
ProcessNotificationHandleUpdates(handles, responses, k) ==
    IF k > Len(responses) THEN handles
    ELSE ProcessNotificationHandleUpdates(
             [handles EXCEPT ![responses[k].endpointIndex + 1] =
                 [generation |-> responses[k].generation,
                  handle |-> responses[k].handle]],
             responses, k + 1)

\* the CloseHandle calls of processNotificationHandleUpdates, from response k on
RECURSIVE ClosedHandles(_, _, _)
ClosedHandles(handles, responses, k) ==
    IF k > Len(responses) THEN <<>>
    ELSE LET old == handles[responses[k].endpointIndex + 1].handle
         IN  (IF old # 0 THEN <<old>> ELSE <<>>)
             \o ClosedHandles(
                    [handles EXCEPT ![responses[k].endpointIndex + 1] =
                        [generation |-> responses[k].generation,
                         handle |-> responses[k].handle]],
                    responses, k + 1)

\* GetQueuedCompletionStatus with a timeout of 0, lines 419-437: what the poll finds
PollHandleQueue(started, queue) ==
    IF ~started THEN "none"
    ELSE IF queue.state = "completed" THEN "completed"
    ELSE IF queue.state = "failed" THEN "failed"
    ELSE "nothing"

\* a call that issues a request whatever the poll found
StartNewOperationAlways(started, queue) == TRUE

\* lines 415-437: startNewOperation when the body of updateNotificationHandles reaches
\* line 439
StartNewOperation(started, queue) ==
    \/ ~started
    \/ queue.state \in {"completed", "failed"}

\* updateNotificationHandles; io is what the DeviceIoControl it may issue returns.
\* Beside the members it leaves behind, the result names what the poll found, whether
\* a request was issued, and the handles that were closed.
UpdateNotificationHandles(started, queue, handles, io) ==
    LET polled == started /\ queue.state \in {"completed", "failed"}
        startNewOperation == StartNewOperation(started, queue)
        handles1 == IF polled /\ queue.state = "completed"
                    THEN ProcessNotificationHandleUpdates(handles, queue.responses, 1)
                    ELSE handles
        closed1 == IF polled /\ queue.state = "completed"
                   THEN ClosedHandles(handles, queue.responses, 1)
                   ELSE <<>>
        queue1 == IF polled THEN IdleQueue ELSE queue
        done == [polled |-> PollHandleQueue(started, queue),
                 startNewOperation |-> startNewOperation]
    IN  IF ~startNewOperation
        THEN done @@ [started |-> started, queue |-> queue, handles |-> handles,
                      closed |-> <<>>]
        ELSE CASE io.status = "sync" ->
                    done @@
                    [started |-> FALSE, queue |-> queue1,
                     handles |-> ProcessNotificationHandleUpdates(handles1, io.responses, 1),
                     closed |-> closed1 \o ClosedHandles(handles1, io.responses, 1)]
               [] io.status = "pending" ->
                    done @@
                    [started |-> TRUE,
                     queue |-> [state |-> "pending", responses |-> <<>>],
                     handles |-> handles1, closed |-> closed1]
               [] OTHER ->
                    done @@
                    [started |-> FALSE, queue |-> queue1, handles |-> handles1,
                     closed |-> closed1]

(***************************************************************************)
(* tick(bufferIndex).                                                      *)
(***************************************************************************)
\* a chunk of one channel whatever the endpoint carries
frameChunkSizeOneChannel(activeChannelCount) == asioBufferSize

\* line 74
frameChunkSize(activeChannelCount) == DwordMul(asioBufferSize, activeChannelCount)

\* the advance without the reduction modulo the ring size
NextPositionRegisterNoWrap(positionRegister, chunk, endpointBufferSize) ==
    DwordAdd(positionRegister, chunk)

\* lines 99-100
NextPositionRegister(positionRegister, chunk, endpointBufferSize) ==
    DwordAdd(positionRegister, chunk) % endpointBufferSize

\* lines 86-89: the endpoint is given silence
IsSilenced(snap, regionSize) ==
    \/ ~GENERATION_IS_ACTIVE(snap.generation)
    \/ snap.bufferSize = 0
    \/ snap.positionRegister > snap.bufferSize
    \/ DwordAdd(snap.bufferOffset, snap.bufferSize) > regionSize

\* lines 77-79: the cached handle is stale and the endpoint wants notifications
HandleIsStale(snap, entry) ==
    /\ snap.notificationCount # 0
    /\ GENERATION_NUMBER(snap.generation) # GENERATION_NUMBER(entry.generation)

\* the test of lines 77-79 without the flag of the tick
RefreshNeededAtEveryEndpoint(hasUpdatedNotificationHandles, snap, entry) ==
    HandleIsStale(snap, entry)

\* lines 77-79: the iteration calls updateNotificationHandles
RefreshNeeded(hasUpdatedNotificationHandles, snap, entry) ==
    /\ ~hasUpdatedNotificationHandles
    /\ HandleIsStale(snap, entry)

\* IsTorn without the comparison of the generation numbers
IsTornActiveOnly(generation, lateGeneration) == ~GENERATION_IS_ACTIVE(lateGeneration)

\* lines 124-126: the generation read after the copy voids the copy
IsTorn(generation, lateGeneration) ==
    \/ ~GENERATION_IS_ACTIVE(lateGeneration)
    \/ GENERATION_NUMBER(generation) # GENERATION_NUMBER(lateGeneration)

\* the test without the crossing of the end of the ring
NotificationDueMidpointOnly(notificationCount, positionRegister, nextPositionRegister, endpointBufferSize) ==
    /\ notificationCount >= 2
    /\ nextPositionRegister >= endpointBufferSize \div 2
    /\ positionRegister < endpointBufferSize \div 2

\* the test with a wrap of the position counted as a crossing of its own
NotificationDueOnEveryWrap(notificationCount, positionRegister, nextPositionRegister, endpointBufferSize) ==
    \/ /\ notificationCount >= 1
       /\ nextPositionRegister <= positionRegister
    \/ /\ notificationCount >= 2
       /\ nextPositionRegister >= endpointBufferSize \div 2
       /\ positionRegister < endpointBufferSize \div 2

\* lines 148-153: a notification is due
NotificationDue(notificationCount, positionRegister, nextPositionRegister, endpointBufferSize) ==
    \/ /\ notificationCount >= 1
       /\ positionRegister >= endpointBufferSize \div 2
       /\ nextPositionRegister < endpointBufferSize \div 2
    \/ /\ notificationCount >= 2
       /\ nextPositionRegister >= endpointBufferSize \div 2
       /\ positionRegister < endpointBufferSize \div 2

\* the test of the handle without the comparison of the generation numbers
HandleIsPresent(entry, generation) == entry.handle # 0

\* lines 158-160: the cached handle may be signalled
HandleIsCurrent(entry, generation) ==
    /\ entry.handle # 0
    /\ GENERATION_NUMBER(entry.generation) = GENERATION_NUMBER(generation)

SnapNext(snap) ==
    NextPositionRegister(snap.positionRegister, frameChunkSize(snap.activeChannelCount),
                         snap.bufferSize)

SnapDue(snap) ==
    NotificationDue(snap.notificationCount, snap.positionRegister, SnapNext(snap),
                    snap.bufferSize)

\* lines 101-120: the copy between the ring and the host buffers of an endpoint
Copy(type, snap, buffers, mem, garbage) ==
    LET chunk == frameChunkSize(snap.activeChannelCount)
        position == DwordAdd(snap.positionRegister, snap.bufferOffset)
        firstSize == Min(chunk, snap.bufferSize - snap.positionRegister)
        secondSize == chunk - firstSize
    IN  IF type = "Playback"
        THEN LET r == Demux(position, firstSize, snap.bufferOffset, secondSize, buffers,
                            Len(buffers), snap.activeChannelCount, asioBufferSize,
                            sampleSize, mem, garbage)
             IN  [targets |-> r.targets, mem |-> mem, oob |-> r.oob]
        ELSE LET r == Mux(position, firstSize, snap.bufferOffset, secondSize, buffers,
                          Len(buffers), snap.activeChannelCount, asioBufferSize,
                          sampleSize, mem)
             IN  [targets |-> buffers, mem |-> r.mem, oob |-> r.oob]

\* the end of one iteration of the loop over the endpoints
NextEndpoint ==
    IF tick.i = Len(endpoints)
    THEN /\ tickpc' = "idle"
         /\ tick' = NoTick
         /\ registersLock' = "free"
    ELSE /\ tickpc' = "endpoint"
         /\ tick' = [tick EXCEPT !.i = tick.i + 1, !.generation = 0,
                        !.nextPositionRegister = 0, !.notificationDue = FALSE]
         /\ UNCHANGED registersLock

\* the host runs its audio callback only while the control thread is not inside start()
HostMayTick == ctrlpc # "unwind"

\* lines 42-44 on a session that is torn down: the tick returns at once
TickAbort(bufferIndex) ==
    /\ HostMayTick
    /\ tickpc = "idle"
    /\ registersLock = "free"
    /\ registers = "null"
    /\ path' = [i \in Endpoints |-> "aborted"]
    /\ signalled' = [i \in Endpoints |-> <<>>]
    /\ UNCHANGED <<endpoints, call, sessionVars, notificationHandles, handleQueue, regs, ring,
                   handleQueueStarted, updateSampleRateOnTick, registersLock, ctrlpc,
                   tickpc, tick, asioBuffers, stopCalls>>

\* a tick that issues the request whatever the flag holds
FormatChangeEventsAlways(requested) == 1

\* lines 46-51: the SAR_SEND_FORMAT_CHANGE_EVENT requests of a tick that found the
\* flag as given
FormatChangeEvents(requested) == IF requested THEN 1 ELSE 0

\* the host's side of a buffer switch: the playback buffers of both sets hold what
\* earlier cycles left, the recording buffers hold the new input
HostHandOver ==
    [b \in BufferIndexes |->
        [i \in Endpoints |->
            [ti \in 1..Len(asioBuffers[b][i]) |->
                IF asioBuffers[b][i][ti] = NullBuffer THEN NullBuffer
                ELSE IF endpoints[i] = "Playback" THEN HostLeftover ELSE HostInput(ti)]]]

\* lines 36-51: the tick takes _registersLock and finds the session alive
TickEnter(bufferIndex) ==
    /\ HostMayTick
    /\ tickpc = "idle"
    /\ registersLock = "free"
    /\ registers # "null"
    /\ registersLock' = "tick"
    /\ tickpc' = "endpoint"
    /\ tick' = [NoTick EXCEPT !.bufferIndex = bufferIndex, !.i = 1,
                   !.formatChangeEvents = FormatChangeEvents(updateSampleRateOnTick)]
    /\ updateSampleRateOnTick' = FALSE
    /\ path' = [i \in Endpoints |-> "none"]
    /\ signalled' = [i \in Endpoints |-> <<>>]
    /\ asioBuffers' = HostHandOver
    /\ ring' = RingInit
    /\ UNCHANGED <<endpoints, call, sessionVars, notificationHandles, handleQueue, regs,
                   handleQueueStarted, ctrlpc, stopCalls>>

\* lines 63-120: the snapshot, the refresh of the handles, the silence path or the copy
TickEndpoint(io, garbage) ==
    /\ tickpc = "endpoint"
    /\ LET i == tick.i
           b == tick.bufferIndex
           snap == regs[i]
           refresh == RefreshNeeded(tick.hasUpdatedNotificationHandles, snap,
                                    notificationHandles[i])
           u == IF refresh
                THEN UpdateNotificationHandles(handleQueueStarted, handleQueue,
                                               notificationHandles, io)
                ELSE [started |-> handleQueueStarted, queue |-> handleQueue,
                      handles |-> notificationHandles, polled |-> tick.polled]
           called == [tick EXCEPT !.hasUpdatedNotificationHandles = @ \/ refresh,
                                  !.polled = u.polled,
                                  !.updateCalls = @ + (IF refresh THEN 1 ELSE 0)]
           c == Copy(endpoints[i], snap, asioBuffers[b][i], ring, garbage)
       IN  /\ handleQueueStarted' = u.started
           /\ handleQueue' = u.queue
           /\ notificationHandles' = u.handles
           /\ IF IsSilenced(snap, sharedBufferSize)
              THEN /\ asioBuffers' = [asioBuffers EXCEPT ![b][i] =
                                         ZeroTargets(asioBuffers[b][i], asioBufferSize)]
                   /\ path' = [path EXCEPT ![i] = "silence"]
                   /\ IF tick.i = Len(endpoints)
                      THEN /\ tickpc' = "idle"
                           /\ tick' = NoTick
                           /\ registersLock' = "free"
                      ELSE /\ tickpc' = "endpoint"
                           /\ tick' = [called EXCEPT !.i = tick.i + 1]
                           /\ UNCHANGED registersLock
                   /\ UNCHANGED ring
              ELSE \/ /\ asioBuffers' = [asioBuffers EXCEPT ![b][i] = c.targets]
                      /\ ring' = c.mem
                      /\ path' = [path EXCEPT ![i] = "copy"]
                      /\ tickpc' = "recheck"
                      /\ tick' = [called EXCEPT !.generation = snap.generation,
                                       !.nextPositionRegister = SnapNext(snap),
                                       !.notificationDue = SnapDue(snap)]
                      /\ UNCHANGED registersLock
                   \/ /\ c.oob
                      /\ tickpc' = "fault"
                      /\ path' = [path EXCEPT ![i] = "fault"]
                      /\ tick' = called
                      /\ UNCHANGED <<asioBuffers, ring, registersLock>>
    /\ UNCHANGED <<endpoints, call, sessionVars, regs, updateSampleRateOnTick, ctrlpc, signalled,
                   stopCalls>>

\* lines 122-135: the generation is read again; a torn copy is replaced by silence
TickRecheck ==
    /\ tickpc = "recheck"
    /\ LET i == tick.i
           b == tick.bufferIndex
           lateGeneration == regs[i].generation
       IN  IF IsTorn(tick.generation, lateGeneration)
           THEN /\ asioBuffers' = [asioBuffers EXCEPT ![b][i] =
                                      ZeroTargets(asioBuffers[b][i], asioBufferSize)]
                /\ path' = [path EXCEPT ![i] = "torn"]
                /\ NextEndpoint
           ELSE /\ tickpc' = "publish"
                /\ UNCHANGED <<asioBuffers, path, tick, registersLock>>
    /\ UNCHANGED <<endpoints, call, sessionVars, notificationHandles, handleQueue, regs, ring,
                   handleQueueStarted, updateSampleRateOnTick, ctrlpc, signalled, stopCalls>>

\* a store that reaches the position register of every endpoint
WritePositionRegisterOfAll(registerArray, i, nextPositionRegister) ==
    [j \in DOMAIN registerArray |->
        [registerArray[j] EXCEPT !.positionRegister = nextPositionRegister]]

\* lines 162 and 177: _registers[i].positionRegister = nextPositionRegister
WritePositionRegister(registerArray, i, nextPositionRegister) ==
    [registerArray EXCEPT ![i].positionRegister = nextPositionRegister]

\* lines 137-178: the notification and the position register
TickPublish ==
    /\ tickpc = "publish"
    /\ LET i == tick.i
           b == tick.bufferIndex
           nextPositionRegister == tick.nextPositionRegister
           entry == notificationHandles[i]
       IN  IF tick.notificationDue
           THEN IF HandleIsCurrent(entry, tick.generation)
                THEN /\ regs' = WritePositionRegister(regs, i, nextPositionRegister)
                     /\ signalled' = [signalled EXCEPT ![i] = Append(@, entry)]
                     /\ path' = [path EXCEPT ![i] = "signal"]
                     /\ UNCHANGED asioBuffers
                ELSE /\ asioBuffers' = [asioBuffers EXCEPT ![b][i] =
                                           ZeroTargets(asioBuffers[b][i], asioBufferSize)]
                     /\ path' = [path EXCEPT ![i] = "stale"]
                     /\ UNCHANGED <<regs, signalled>>
           ELSE /\ regs' = WritePositionRegister(regs, i, nextPositionRegister)
                /\ path' = [path EXCEPT ![i] = "advance"]
                /\ UNCHANGED <<asioBuffers, signalled>>
    /\ NextEndpoint
    /\ UNCHANGED <<endpoints, call, sessionVars, notificationHandles, handleQueue, ring,
                   handleQueueStarted, updateSampleRateOnTick, ctrlpc, stopCalls>>

Next ==
    \/ \E fail \in StartFailures : Start(fail)
    \/ StopBegin
    \/ StopEnd
    \/ \E i \in Endpoints, gen \in GenerationValues : DriverSetGeneration(i, gen)
    \/ \E i \in Endpoints, layout \in Layouts : DriverConfigure(i, layout)
    \/ \E batch \in Batches : DriverCompleteHandleQueue(batch)
    \/ DriverFailHandleQueue
    \/ \E b \in BufferIndexes : TickAbort(b)
    \/ \E b \in BufferIndexes : TickEnter(b)
    \/ \E io \in IoOutcomes, garbage \in GarbageBytes : TickEndpoint(io, garbage)
    \/ TickRecheck
    \/ TickPublish

Spec == Init /\ [][Next]_vars

\* the layouts of the driver that start at the head of the region and carry at most
\* two channels
DeviceEventLayouts ==
    {layout \in Layouts : layout.bufferOffset = 0 /\ layout.activeChannelCount <= 2}

\* the engine together with the device notifications of the system.  The notification
\* client writes _updateSampleRateOnTick and nothing else, and the engine reads the flag
\* at lines 46-51 only, so Spec leaves the client out and this specification adds it;
\* the flag does not depend on the layout of the ring, and the driver keeps to
\* DeviceEventLayouts here.
NextDeviceEvents ==
    \/ \E fail \in StartFailures : Start(fail)
    \/ StopBegin
    \/ StopEnd
    \/ \E i \in Endpoints, gen \in GenerationValues : DriverSetGeneration(i, gen)
    \/ \E i \in Endpoints, layout \in DeviceEventLayouts : DriverConfigure(i, layout)
    \/ \E batch \in Batches : DriverCompleteHandleQueue(batch)
    \/ DriverFailHandleQueue
    \/ \E b \in BufferIndexes : TickAbort(b)
    \/ \E b \in BufferIndexes : TickEnter(b)
    \/ \E io \in IoOutcomes, garbage \in GarbageBytes : TickEndpoint(io, garbage)
    \/ TickRecheck
    \/ TickPublish
    \/ OnDeviceStateChanged

SpecDeviceEvents == Init /\ [][NextDeviceEvents]_vars

\* the engine with two endpoints, a playback and a recording endpoint, for what one
\* iteration of the tick does to the other endpoint.  The driver installs one layout,
\* which asks for notifications, in registers that ask for none before; start()
\* succeeds and the host switches to buffer set 0.
TwoEndpointConfigs == {<<"Playback", "Recording">>}

TwoEndpointLayouts == {Layout(1, 4, 4, 1)}

TwoEndpointStartFailures == {"none"}

TwoEndpointBufferIndexes == {0}

InitTwoEndpoints ==
    /\ ConstructedOver(TwoEndpointConfigs)
    /\ call = NoCall

NextTwoEndpoints ==
    \/ \E fail \in TwoEndpointStartFailures : Start(fail)
    \/ StopBegin
    \/ StopEnd
    \/ \E i \in Endpoints, gen \in GenerationValues : DriverSetGeneration(i, gen)
    \/ \E i \in Endpoints, layout \in TwoEndpointLayouts : DriverConfigure(i, layout)
    \/ \E batch \in Batches : DriverCompleteHandleQueue(batch)
    \/ DriverFailHandleQueue
    \/ \E b \in TwoEndpointBufferIndexes : TickAbort(b)
    \/ \E b \in TwoEndpointBufferIndexes : TickEnter(b)
    \/ \E io \in IoOutcomes, garbage \in GarbageBytes : TickEndpoint(io, garbage)
    \/ TickRecheck
    \/ TickPublish

SpecTwoEndpoints == InitTwoEndpoints /\ [][NextTwoEndpoints]_vars

\* the engine under a host that keeps calling tick and a driver that answers the
\* requests for handles.  The host calls tick once per buffer switch for as long as
\* the stream runs, and a tick runs to its end without waiting (the completion port
\* is polled with a timeout of 0), so the steps of the tick are weakly fair; a
\* request in flight is completed by the driver sooner or later although it may fail
\* some of them, and accepts a request sooner or later although it may refuse some,
\* so the completion and the accepted request are strongly fair.  The driver moves
\* between a ring of 8 bytes and one of 4 bytes, both inside the mapped region.
SettlingLayouts == {Layout(1, 0, 8, 2), Layout(1, 4, 4, 1)}

SettlingStartFailures == {"none"}

SettlingBufferIndexes == {0}

NextSettling ==
    \/ \E fail \in SettlingStartFailures : Start(fail)
    \/ StopBegin
    \/ StopEnd
    \/ \E i \in Endpoints, gen \in GenerationValues : DriverSetGeneration(i, gen)
    \/ \E i \in Endpoints, layout \in SettlingLayouts : DriverConfigure(i, layout)
    \/ \E batch \in Batches : DriverCompleteHandleQueue(batch)
    \/ DriverFailHandleQueue
    \/ \E b \in SettlingBufferIndexes : TickAbort(b)
    \/ \E b \in SettlingBufferIndexes : TickEnter(b)
    \/ \E io \in IoOutcomes, garbage \in GarbageBytes : TickEndpoint(io, garbage)
    \/ TickRecheck
    \/ TickPublish

\* an iteration that calls updateNotificationHandles while DeviceIoControl does not
\* fail
HandleRequestAccepted ==
    \E io \in {o \in IoOutcomes : o.status # "error"}, garbage \in GarbageBytes :
        /\ tickpc = "endpoint"
        /\ RefreshNeeded(tick.hasUpdatedNotificationHandles, regs[tick.i],
                         notificationHandles[tick.i])
        /\ TickEndpoint(io, garbage)

SpecSettling ==
    /\ Init
    /\ [][NextSettling]_vars
    /\ WF_vars(\E b \in SettlingBufferIndexes : TickEnter(b))
    /\ WF_vars(\E io \in IoOutcomes, garbage \in GarbageBytes : TickEndpoint(io, garbage))
    /\ WF_vars(TickRecheck)
    /\ WF_vars(TickPublish)
    /\ SF_vars(\E batch \in Batches : DriverCompleteHandleQueue(batch))
    /\ SF_vars(HandleRequestAccepted)

(***************************************************************************)
(* The codec on its own: one mux and one demux call on arguments drawn     *)
(* from bounded sets.  The ring run of targetSize * nsources bytes ends at *)
(* the end of the region and goes on at its start.                         *)
(***************************************************************************)
\* channel counts run over 0..MaxCodecChannels, samples per channel over 1..MaxCodecFrames
MaxCodecChannels == 3
MaxCodecFrames == 2
CodecSampleSizes == {1, 2}

\* the bytes of the region the codec works on
CodecMemSize == 2 * MaxCodecChannels * MaxCodecFrames

HostSample(ti, k) == 40 + 10 * ti + k
LeftoverSample(ti, k) == Leftover

\* per-channel buffers of n bytes, a null pointer where not routed: what the host
\* wrote (fresh) or what an earlier cycle left
CodecBuffers(routing, ntargets, n, fresh) ==
    [ti \in 1..ntargets |->
        IF routing[ti]
        THEN [k \in 1..n |-> IF fresh THEN HostSample(ti, k) ELSE LeftoverSample(ti, k)]
        ELSE NullBuffer]

CodecCall(size, frames, nsources, ntargets, routing, firstSize) ==
    [op |-> "input", muxed |-> FALSE, sampleSize |-> size, targetSize |-> frames * size,
     nsources |-> nsources, ntargets |-> ntargets,
     first |-> CodecMemSize - firstSize, firstSize |-> firstSize,
     second |-> 0, secondSize |-> frames * size * nsources - firstSize,
     buffers |-> CodecBuffers(routing, ntargets, frames * size, TRUE),
     out |-> CodecBuffers(routing, ntargets, frames * size, FALSE),
     mem |-> [a \in 0..(CodecMemSize - 1) |-> 10 + a], oob |-> FALSE]

CodecInputs ==
    {c \in {CodecCall(size, frames, nsources, ntargets, routing, firstSize) :
                size \in CodecSampleSizes, frames \in 1..MaxCodecFrames,
                nsources \in 0..MaxCodecChannels, ntargets \in 1..MaxCodecChannels,
                routing \in [1..MaxCodecChannels -> BOOLEAN],
                firstSize \in 0..CodecMemSize} :
        c.secondSize >= 0}

engineVars == <<endpoints, asioBuffers, device, completionPort, registers, sharedBuffer,
                sharedBufferSize, regs, ring, handleQueueStarted, handleQueue,
                notificationHandles, updateSampleRateOnTick, mmEnumerator,
                mmNotificationClient, mmNotificationClientRegistered, registersLock,
                tickpc, tick, ctrlpc, signalled, path, stopCalls>>

InitCodec ==
    /\ Constructed
    /\ call \in CodecInputs

\* mux of the per-channel buffers into the ring run
CodecMux ==
    /\ call.op = "input"
    /\ LET r == Mux(call.first, call.firstSize, call.second, call.secondSize,
                    call.buffers, call.ntargets, call.nsources, call.targetSize,
                    call.sampleSize, call.mem)
       IN  call' = [call EXCEPT !.op = "muxed", !.muxed = TRUE, !.mem = r.mem,
                                  !.oob = r.oob]
    /\ UNCHANGED engineVars

\* demux of the same ring run into buffers that hold what an earlier cycle left
CodecDemux(garbage) ==
    /\ call.op \in {"input", "muxed"}
    /\ LET r == Demux(call.first, call.firstSize, call.second, call.secondSize,
                      call.out, call.ntargets, call.nsources, call.targetSize,
                      call.sampleSize, call.mem, garbage)
       IN  call' = [call EXCEPT !.op = "demuxed", !.out = r.targets,
                                  !.oob = @ \/ r.oob]
    /\ UNCHANGED engineVars

NextCodec ==
    \/ CodecMux
    \/ \E garbage \in GarbageBytes : CodecDemux(garbage)

SpecCodec == InitCodec /\ [][NextCodec]_vars

(***************************************************************************)
(* The handle manager on its own: one call of updateNotificationHandles on *)
(* members drawn from bounded sets, for an engine of HandleEndpoints       *)
(* endpoints and batches of up to MaxBatch responses.                      *)
(***************************************************************************)
HandleEndpoints == 2
MaxBatch == 2

\* the generations of the responses: a client of generation number 0 and one of 1
HandleGenerations == {MAKE_GENERATION(0, 1), MAKE_GENERATION(1, 1)}

\* the handle cached for endpoint i, the handles of a batch found by the poll, and
\* those of a batch returned by the request itself: no two alike, as the driver
\* duplicates a handle for every response
CachedHandle(i) == i
PolledHandle(k) == 10 + k
ReturnedHandle(k) == 20 + k

\* the batches of n responses, polled from the port or returned by the request
HandleBatchesOf(n, polled) ==
    {[k \in 1..n |-> [endpointIndex |-> f[k][1], generation |-> f[k][2],
                      handle |-> IF polled THEN PolledHandle(k) ELSE ReturnedHandle(k)]] :
        f \in [1..n -> (0..(HandleEndpoints - 1)) \X HandleGenerations]}

HandleBatches(polled) == UNION {HandleBatchesOf(n, polled) : n \in 1..MaxBatch}

\* _notificationHandles: per endpoint no handle yet, or one of generation number 0
HandleCaches ==
    {[i \in 1..HandleEndpoints |->
         IF i \in has THEN [generation |-> MAKE_GENERATION(0, 1), handle |-> CachedHandle(i)]
         ELSE NoHandle] : has \in SUBSET (1..HandleEndpoints)}

HandleQueues ==
    {IdleQueue, [state |-> "pending", responses |-> <<>>],
     [state |-> "failed", responses |-> <<>>]}
    \cup {[state |-> "completed", responses |-> b] : b \in HandleBatches(TRUE)}

HandleIoOutcomes ==
    {[status |-> "pending", responses |-> <<>>], [status |-> "error", responses |-> <<>>]}
    \cup {[status |-> "sync", responses |-> b] : b \in HandleBatches(FALSE)}

HandleCall(started, queue, handles) ==
    [op |-> "refresh", started |-> started, queue |-> queue, handles |-> handles,
     io |-> [status |-> "none", responses |-> <<>>], result |-> <<>>]

\* with no request recorded as outstanding nothing is queued on the port
HandleInputs ==
    {HandleCall(TRUE, queue, handles) : queue \in HandleQueues, handles \in HandleCaches}
    \cup {HandleCall(FALSE, IdleQueue, handles) : handles \in HandleCaches}

InitHandles ==
    /\ Constructed
    /\ call \in HandleInputs

\* one call of updateNotificationHandles
HandleRefresh(io) ==
    /\ call.op = "refresh"
    /\ call' = [call EXCEPT !.op = "refreshed", !.io = io,
                            !.result = UpdateNotificationHandles(call.started, call.queue,
                                                                 call.handles, io)]
    /\ UNCHANGED engineVars

NextHandles == \E io \in HandleIoOutcomes : HandleRefresh(io)

SpecHandles == InitHandles /\ [][NextHandles]_vars

(***************************************************************************)
(* Properties.                                                             *)
(***************************************************************************)
\* every non-null target buffer of endpoint i in buffer set b is asioBufferSize zeros
TargetsSilent(buffers, b, i) ==
    \A ti \in 1..Len(buffers[b][i]) :
        buffers[b][i][ti] # NullBuffer => buffers[b][i][ti] = Zeros(asioBufferSize)

\* the tick has finished with the endpoint it was processing
IterationOver == tickpc' \in {"idle", "endpoint"}

\* the tick thread is between its entry and its return
TickRunning == tickpc \in {"endpoint", "recheck", "publish", "fault"}

\* C1: when the generation read again after the copy has another generation number
\* than the snapshot, or has its active bit unset, the tick leaves positionRegister
\* as it was, raises no signal for the endpoint, and ends the iteration with every
\* non-null target buffer of the endpoint zeroed.
C1_TornCopyIsDiscarded ==
    [][(/\ tickpc = "recheck"
        /\ tickpc' # "recheck"
        /\ \/ ~GENERATION_IS_ACTIVE(regs[tick.i].generation)
           \/ GENERATION_NUMBER(regs[tick.i].generation) # GENERATION_NUMBER(tick.generation))
       => /\ regs' = regs
          /\ signalled'[tick.i] = <<>>
          /\ IterationOver
          /\ TargetsSilent(asioBuffers', tick.bufferIndex, tick.i)]_vars

\* a playback tick has returned after a torn copy, with the register still active
C1_TornTickReturned ==
    /\ tickpc = "idle"
    /\ \E i \in Endpoints :
          /\ path[i] = "torn"
          /\ endpoints[i] = "Playback"
          /\ GENERATION_IS_ACTIVE(regs[i].generation)

\* C2: whenever the engine writes positionRegister, the generation number in the
\* shared register at that moment is the one the tick snapshotted.
C2_WriteOnlyUnderSnapshotGeneration ==
    [][(/\ tickpc = "publish"
        /\ tickpc' # "publish"
        /\ path'[tick.i] \in {"signal", "advance"})
       => GENERATION_NUMBER(regs[tick.i].generation) = GENERATION_NUMBER(tick.generation)]_vars

\* C3: a tick is inside the engine only while the registers and the shared buffer
\* are mapped, stop() clears the pointers only when no tick is inside, and a tick
\* that enters a torn-down session returns without writing a register, the ring or a
\* host buffer, without a driver request and without a signal.
C3_TickAndStopExclusive ==
    [][/\ (tickpc' \in {"endpoint", "recheck", "publish"}
            => registers' = "mapped" /\ sharedBuffer' = "mapped")
       /\ (registers = "mapped" /\ registers' = "null" => tickpc = "idle")
       /\ (registers = "null" /\ tickpc = "idle" /\ <<tickpc, tick, path>>' # <<tickpc, tick, path>>
            => /\ tickpc' = "idle"
               /\ UNCHANGED <<regs, ring, asioBuffers, handleQueue, handleQueueStarted,
                              notificationHandles, updateSampleRateOnTick>>
               /\ \A i \in Endpoints : signalled'[i] = <<>>)]_vars

\* a tick has entered and left a session that had a notification handle and that
\* stop() has torn down
C3_TickAfterStop ==
    /\ stopCalls >= 1
    /\ \E i \in DOMAIN notificationHandles : notificationHandles[i].handle # 0
    /\ ctrlpc = "idle"
    /\ tickpc = "idle"
    /\ \A i \in Endpoints : path[i] = "aborted"

\* C4: when a tick on a started session returns, every non-null target buffer of
\* every playback endpoint has been written in full, with silence or with samples
\* of the ring: no byte of it is what an earlier cycle left there.
C4_PlaybackBuffersWrittenInFull ==
    [][(TickRunning /\ tickpc' = "idle")
       => \A i \in Endpoints :
             endpoints[i] = "Playback"
             => \A ti \in 1..Len(asioBuffers'[tick.bufferIndex][i]) :
                   \A k \in 1..Len(asioBuffers'[tick.bufferIndex][i][ti]) :
                       asioBuffers'[tick.bufferIndex][i][ti][k] # Leftover]_vars

\* C5 as stated, for the endpoints the driver has given a ring: in every state of a
\* started session positionRegister < bufferSize.
C5_PositionBelowBufferSize ==
    registers = "mapped"
    => \A i \in Endpoints :
          regs[i].bufferSize # 0 => regs[i].positionRegister < regs[i].bufferSize

\* C5, amended: the value a tick computes for positionRegister is the snapshot
\* position advanced by the chunk modulo the snapshot bufferSize, so it is below
\* that bufferSize, and while the session is mapped positionRegister changes only
\* by the tick storing that value.
C5_StoredPositionIsAdvanceModuloSnapshot ==
    [][/\ (tickpc = "endpoint" /\ tickpc' = "recheck"
            => /\ tick'.nextPositionRegister < regs[tick.i].bufferSize
               /\ tick'.nextPositionRegister =
                      ((regs[tick.i].positionRegister
                        + frameChunkSize(regs[tick.i].activeChannelCount)) % WordMod)
                      % regs[tick.i].bufferSize)
       /\ (registers = "mapped" /\ registers' = "mapped"
            => \A i \in Endpoints :
                  regs'[i].positionRegister # regs[i].positionRegister
                  => /\ tickpc = "publish"
                     /\ i = tick.i
                     /\ regs'[i].positionRegister = tick.nextPositionRegister)]_vars

\* a tick has stored a position that wrapped around the end of the ring
C5_PositionWrapped ==
    \E i \in Endpoints :
        /\ path[i] = "signal"
        /\ regs[i].bufferSize = 8
        /\ regs[i].activeChannelCount = 2
        /\ regs[i].positionRegister = 0

\* C6: an endpoint whose snapshot is inactive, or has bufferSize 0, or
\* positionRegister > bufferSize, or bufferOffset + bufferSize beyond the mapped
\* region, gets silence: its non-null targets are zeroed, the ring is not touched,
\* positionRegister stays, nothing is signalled and the tick goes on.
C6_SilencePath ==
    [][(/\ tickpc = "endpoint"
        /\ <<tickpc, tick>>' # <<tickpc, tick>>
        /\ \/ ~GENERATION_IS_ACTIVE(regs[tick.i].generation)
           \/ regs[tick.i].bufferSize = 0
           \/ regs[tick.i].positionRegister > regs[tick.i].bufferSize
           \/ regs[tick.i].bufferOffset + regs[tick.i].bufferSize > sharedBufferSize)
       => /\ TargetsSilent(asioBuffers', tick.bufferIndex, tick.i)
          /\ ring' = ring
          /\ regs' = regs
          /\ signalled'[tick.i] = <<>>
          /\ IterationOver]_vars

\* the tick leaves the publish step of the endpoint it is processing
PublishStep == tickpc = "publish" /\ tickpc' # "publish"

\* the tick has copied for the endpoint it is processing and goes on to the re-read
CopyStep == tickpc = "endpoint" /\ tickpc' = "recheck"

\* C7: when a signal is due and the cached handle is absent or carries another
\* generation number than the snapshot, the tick signals nothing, leaves
\* positionRegister and zeroes the endpoint's non-null targets; and every handle
\* the tick signals carries the generation number of the snapshot.
C7_StaleHandleIsNotSignalled ==
    [][/\ (/\ PublishStep
            /\ tick.notificationDue
            /\ \/ notificationHandles[tick.i].handle = 0
               \/ GENERATION_NUMBER(notificationHandles[tick.i].generation)
                      # GENERATION_NUMBER(tick.generation)
            => /\ signalled' = signalled
               /\ regs' = regs
               /\ TargetsSilent(asioBuffers', tick.bufferIndex, tick.i))
       /\ \A i \in Endpoints :
             signalled'[i] # signalled[i] /\ signalled'[i] # <<>>
             => /\ PublishStep
                /\ i = tick.i
                /\ signalled'[i][Len(signalled'[i])].handle # 0
                /\ GENERATION_NUMBER(signalled'[i][Len(signalled'[i])].generation)
                      = GENERATION_NUMBER(tick.generation)]_vars

\* a tick found a signal due while the cached handle was one of an earlier generation
C7_StaleHandleMet ==
    \E i \in Endpoints :
        /\ path[i] = "stale"
        /\ notificationHandles[i].handle # 0
        /\ signalled[i] = <<>>

\* C8: with the generation unchanged across the copy and a handle of the snapshot's
\* generation number, a move from the second half of the ring to the first with
\* notificationCount >= 1, or from the first half to the second with
\* notificationCount >= 2, makes the tick signal the handle once and store
\* nextPosition; with notificationCount = 1 a move from the first half to the second
\* signals nothing.  1024/512/600/1 gives nextPosition 88 and a signal.
C8_CrossingSignals ==
    /\ NextPositionRegister(512, 600, 1024) = 88
    /\ NotificationDue(1, 512, NextPositionRegister(512, 600, 1024), 1024)
    /\ ~NotificationDue(1, 256, NextPositionRegister(256, 600, 1024), 1024)
    /\ [][/\ (CopyStep
                => LET r == regs[tick.i]
                       half == r.bufferSize \div 2
                       next == tick'.nextPositionRegister
                   IN  /\ (r.notificationCount >= 1 /\ r.positionRegister >= half /\ next < half
                            => tick'.notificationDue)
                       /\ (r.notificationCount >= 2 /\ r.positionRegister < half /\ next >= half
                            => tick'.notificationDue)
                       /\ (r.notificationCount = 1 /\ r.positionRegister < half /\ next >= half
                            => ~tick'.notificationDue))
           /\ (/\ PublishStep
                /\ tick.notificationDue
                /\ notificationHandles[tick.i].handle # 0
                /\ GENERATION_NUMBER(notificationHandles[tick.i].generation)
                      = GENERATION_NUMBER(tick.generation)
                => /\ signalled'[tick.i] = <<notificationHandles[tick.i]>>
                   /\ regs'[tick.i].positionRegister = tick.nextPositionRegister)
           /\ (PublishStep /\ ~tick.notificationDue
                => /\ signalled' = signalled
                   /\ regs'[tick.i].positionRegister = tick.nextPositionRegister)]_vars

\* a tick with notificationCount 1 wrapped from the second half of a ring to its start
\* and signalled the handle once
C8_EndCrossingSignalled ==
    \E i \in Endpoints :
        /\ path[i] = "signal"
        /\ regs[i].notificationCount = 1
        /\ regs[i].bufferSize = 4
        /\ regs[i].positionRegister = 0
        /\ Len(signalled[i]) = 1

\* the midpoints and ends of the ring that an advance of chunk bytes from
\* positionRegister reaches or passes
PointsCrossed(positionRegister, chunk, endpointBufferSize) ==
    Cardinality({p \in (positionRegister + 1)..(positionRegister + chunk) :
                    p % (endpointBufferSize \div 2) = 0})

\* C9 as stated: with notificationCount 2 a notification is raised for a tick exactly
\* when its advance crosses the midpoint or the end of the ring, an advance that
\* wraps past bufferSize included.
C9_EveryCrossingFires ==
    [][(CopyStep /\ regs[tick.i].notificationCount = 2)
       => (tick'.notificationDue
           <=> PointsCrossed(regs[tick.i].positionRegister,
                             frameChunkSize(regs[tick.i].activeChannelCount),
                             regs[tick.i].bufferSize) >= 1)]_vars

\* C9, amended: a tick raises at most one signal per endpoint; with
\* notificationCount 2 a notification is due exactly when the stored position and
\* the next position lie in different halves of the ring, so an advance that crosses
\* the midpoint and the end and lands in the half it left raises none.
C9_OneSignalWhenHalvesDiffer ==
    /\ [](\A i \in Endpoints : Len(signalled[i]) <= 1)
    /\ [][(CopyStep /\ regs[tick.i].notificationCount = 2)
           => LET r == regs[tick.i]
                  half == r.bufferSize \div 2
              IN  tick'.notificationDue
                  <=> ((r.positionRegister < half) # (tick'.nextPositionRegister < half))]_vars

\* a tick moved the position from a quarter to three quarters of the ring and raised
\* the one midpoint signal
C9_MidpointSignalled ==
    \E i \in Endpoints :
        /\ path[i] = "signal"
        /\ regs[i].notificationCount = 2
        /\ regs[i].activeChannelCount = 2
        /\ regs[i].bufferSize = 8
        /\ regs[i].positionRegister = 6
        /\ Len(signalled[i]) = 1

\* the session is torn down
TornDown ==
    /\ device = "invalid"
    /\ completionPort = "null"
    /\ registers = "null"
    /\ sharedBuffer = "null"
    /\ sharedBufferSize = 0
    /\ ~mmNotificationClientRegistered
    /\ mmNotificationClient = "null"
    /\ mmEnumerator = "null"

\* C10: whatever the session state stop() is called in, it returns with the session
\* torn down, and a stop() that follows a stop() changes nothing of the session.
C10_StopIsIdempotent ==
    [][/\ (ctrlpc = "port" /\ ctrlpc' = "idle" => TornDown')
       /\ (stopCalls >= 1 /\ ctrlpc' # ctrlpc /\ "port" \in {ctrlpc, ctrlpc'}
            => UNCHANGED <<sessionVars, notificationHandles, handleQueue,
                           handleQueueStarted>>)]_vars

\* stop() has returned twice in a row on a session that had been running
C10_StoppedTwice ==
    /\ stopCalls = 2
    /\ \E i \in DOMAIN notificationHandles : notificationHandles[i].handle # 0
    /\ ctrlpc = "idle"
    /\ TornDown

\* C11: once stop() has returned, the handle manager is idle and holds nothing: the
\* flag that records an outstanding refresh request is cleared and no signal handle
\* is left in the cache.
C11_ManagerIdleAfterStop ==
    (ctrlpc = "idle" /\ stopCalls >= 1)
    => /\ ~handleQueueStarted
       /\ \A i \in DOMAIN notificationHandles : notificationHandles[i].handle = 0

\* every entry of a buffer array is a buffer, none a null pointer
AllRouted(buffers) == \A ti \in DOMAIN buffers : buffers[ti] # NullBuffer

\* C12: mux of n non-null per-channel buffers into the ring run, followed by demux of
\* the same two segments with the same n, lengths and sample size, gives back the n
\* buffers byte for byte, whatever n, the sample size, the length and the split.
C12_RoundTrip ==
    (/\ call.op = "demuxed"
     /\ call.muxed
     /\ call.nsources = call.ntargets
     /\ AllRouted(call.buffers))
    => call.out = call.buffers

C14_NullTargetsAreSkipped ==
    [][/\ \A b \in BufferIndexes, i \in Endpoints :
             /\ Len(asioBuffers'[b][i]) = Len(asioBuffers[b][i])
             /\ \A ti \in 1..Len(asioBuffers[b][i]) :
                   (asioBuffers'[b][i][ti] = NullBuffer) <=> (asioBuffers[b][i][ti] = NullBuffer)
       /\ CopyStep
            => LET snap == regs[tick.i]
                   buffers == asioBuffers[tick.bufferIndex][tick.i]
                   after == asioBuffers'[tick.bufferIndex][tick.i]
                   stride == sampleSize * snap.activeChannelCount
                   position == (snap.positionRegister + snap.bufferOffset) % WordMod
                   chunk == asioBufferSize * snap.activeChannelCount
                   room == snap.bufferSize - snap.positionRegister
                   firstFrames == (IF chunk < room THEN chunk ELSE room) \div stride
                   channels == {ti \in 1..Len(buffers) :
                                   ti <= snap.activeChannelCount /\ buffers[ti] # NullBuffer}
                   frames == 0..(asioBufferSize \div sampleSize - 1)
               IN  /\ \A a \in DOMAIN ring :
                         ring'[a] # ring[a]
                         => /\ endpoints[tick.i] = "Recording"
                            /\ \E ti \in channels, f \in frames :
                                  a \in {position + f * stride + (ti - 1) * sampleSize,
                                         snap.bufferOffset + f * stride + (ti - 1) * sampleSize}
                   /\ \A ti \in channels, f \in frames :
                         (f < firstFrames /\ position + f * stride + ti - 1 \in DOMAIN ring)
                         => IF endpoints[tick.i] = "Recording"
                            THEN ring'[position + f * stride + (ti - 1) * sampleSize]
                                     = buffers[ti][f * sampleSize + 1]
                            ELSE after[ti][f * sampleSize + 1]
                                     = ring[position + f * stride + (ti - 1) * sampleSize]]_vars

\* mux has written two routed channels of a three-channel recording endpoint into the
\* ring and left the bytes of the third, whose target is null, as they were
C14_NullChannelLeftInRing ==
    /\ tickpc = "recheck"
    /\ endpoints[tick.i] = "Recording"
    /\ regs[tick.i].activeChannelCount = 3
    /\ asioBuffers[tick.bufferIndex][tick.i][3] = NullBuffer
    /\ ring[0] = 51 /\ ring[1] = 61 /\ ring[2] = 12
    /\ ring[3] = 52 /\ ring[4] = 62 /\ ring[5] = 15

\* the tick is at the top of an iteration in which lines 77-79 call
\* updateNotificationHandles
RefreshDue ==
    /\ tickpc = "endpoint"
    /\ ~tick.hasUpdatedNotificationHandles
    /\ regs[tick.i].notificationCount # 0
    /\ GENERATION_NUMBER(regs[tick.i].generation)
           # GENERATION_NUMBER(notificationHandles[tick.i].generation)

\* the tick runs lines 63-120 of the iteration
EndpointStep == tickpc = "endpoint" /\ <<tickpc, tick>>' # <<tickpc, tick>>

\* C15: when a refresh request is recorded as outstanding and the poll finds neither
\* a completed nor a failed operation, the call issues no request, changes no handle
\* entry and leaves the request outstanding; it does not wait, so the tick can always
\* take the step and goes on past the call with the request still in flight.
C15_NothingReadyNothingDone ==
    /\ []((/\ RefreshDue
            /\ handleQueueStarted
            /\ handleQueue.state \notin {"completed", "failed"})
           => ENABLED (\E io \in IoOutcomes, garbage \in GarbageBytes :
                          TickEndpoint(io, garbage)))
    /\ [][(/\ EndpointStep
            /\ RefreshDue
            /\ handleQueueStarted
            /\ handleQueue.state \notin {"completed", "failed"})
           => /\ handleQueue' = handleQueue
              /\ notificationHandles' = notificationHandles
              /\ handleQueueStarted'
              /\ tickpc' # "endpoint" \/ tick'.i = tick.i + 1]_vars

\* a tick has polled for a request that is in flight, found nothing and gone on to
\* the copy, and the request is still in flight
C15_PolledAndWentOn ==
    /\ tickpc = "recheck"
    /\ tick.polled = "nothing"
    /\ handleQueueStarted
    /\ handleQueue.state = "pending"

\* the positions of the responses of a batch that name endpoint i
NamedIn(batch, i) == {k \in 1..Len(batch) : batch[k].endpointIndex = i - 1}

\* the last of them
LastNamedIn(batch, i) ==
    CHOOSE k \in NamedIn(batch, i) : \A j \in NamedIn(batch, i) : j <= k

\* C16: when a request is outstanding and the poll returns a completed batch, every
\* update of the batch is applied in order: afterwards the entry of each endpoint the
\* batch names holds the generation and the handle of the last update that names it
\* (followed by what the new request returned at once, if it did), the entries of the
\* other endpoints are as before, every handle that was replaced has been closed
\* exactly once and no other, and a new request has been issued in the same call.
C16_CompletedBatchIsApplied ==
    (call.op = "refreshed" /\ call.started /\ call.queue.state = "completed")
    => LET batch == call.queue.responses
           updates == IF call.io.status = "sync" THEN batch \o call.io.responses
                      ELSE batch
           r == call.result
           replaced ==
               {call.handles[i].handle :
                    i \in {j \in 1..HandleEndpoints : NamedIn(updates, j) # {}}}
               \cup {updates[k].handle :
                        k \in {j \in 1..Len(updates) :
                                  j # LastNamedIn(updates, updates[j].endpointIndex + 1)}}
       IN  /\ \A i \in 1..HandleEndpoints :
                 IF NamedIn(updates, i) = {}
                 THEN r.handles[i] = call.handles[i]
                 ELSE /\ r.handles[i].generation
                            = updates[LastNamedIn(updates, i)].generation
                      /\ r.handles[i].handle = updates[LastNamedIn(updates, i)].handle
           /\ {r.closed[k] : k \in 1..Len(r.closed)} = replaced \ {0}
           /\ \A j, k \in 1..Len(r.closed) : j # k => r.closed[j] # r.closed[k]
           /\ r.started <=> call.io.status = "pending"
           /\ call.io.status = "pending" => r.queue.state = "pending"
           /\ call.io.status # "pending" => r.queue.state = "idle"

\* the poll returned two updates for the first of two endpoints that both had a
\* handle; the cached handle and the handle of the first update were closed, the
\* second endpoint kept its entry, and the new request is in flight
C16_TwoUpdatesForOneEndpoint ==
    /\ call.op = "refreshed"
    /\ call.started
    /\ call.queue.state = "completed"
    /\ call.result.closed = <<CachedHandle(1), PolledHandle(1)>>
    /\ call.result.handles[1] = [generation |-> MAKE_GENERATION(1, 1),
                                 handle |-> PolledHandle(2)]
    /\ call.result.handles[2] = [generation |-> MAKE_GENERATION(0, 1),
                                 handle |-> CachedHandle(2)]
    /\ call.result.queue.state = "pending"

\* C17: a refresh request that failed or was cancelled never leaves the manager
\* stuck in Pending: whenever a session is running and a request is recorded as
\* outstanding, the request is in flight or its completion is waiting on the port,
\* so that the next call finds it or has a request to wait for.
C17_NeverStuckInPending ==
    (ctrlpc = "idle" /\ registers = "mapped" /\ handleQueueStarted)
    => handleQueue.state # "idle"

\* C18: a tick that enters a running session issues the format change request once
\* if updateSampleRateOnTick was requested since the last one and not at all
\* otherwise, on entry, before it processes an endpoint, and clears the flag; the
\* rest of the tick issues none; the flag is cleared by nothing but a tick that
\* issues the request, so a request made while a tick runs waits for the next tick
\* of a running session; a tick that returns from a torn-down session issues
\* nothing and leaves the flag.
C18_FormatChangeSentOncePerRequest ==
    [][/\ (tickpc = "idle" /\ tickpc' # "idle")
            => /\ tick'.formatChangeEvents = (IF updateSampleRateOnTick THEN 1 ELSE 0)
               /\ ~updateSampleRateOnTick'
               /\ tickpc' = "endpoint" /\ tick'.i = 1
               /\ \A i \in Endpoints : path'[i] = "none"
       /\ (TickRunning /\ tickpc' # "idle")
            => tick'.formatChangeEvents = tick.formatChangeEvents
       /\ (updateSampleRateOnTick /\ ~updateSampleRateOnTick')
            => /\ tickpc = "idle" /\ tickpc' = "endpoint"
               /\ registers = "mapped"
               /\ tick'.formatChangeEvents = 1
       /\ (registers = "null" /\ tickpc = "idle" /\ path' # path)
            => /\ updateSampleRateOnTick' = updateSampleRateOnTick
               /\ tickpc' = "idle"
               /\ tick'.formatChangeEvents = 0]_vars

\* a tick has issued the format change request on entry, and while it runs the
\* notification client has asked for another
C18_RequestedAgainDuringTick ==
    /\ tickpc = "recheck"
    /\ tick.formatChangeEvents = 1
    /\ updateSampleRateOnTick

\* C19: when start() has returned, either every bootstrap step succeeded and the
\* session is complete, or the session is in the torn-down state stop() produces:
\* device handle invalid, completion port closed, registers and shared buffer null,
\* notification client unregistered.
C19_FailedStartIsTornDown ==
    ctrlpc = "idle"
    => \/ TornDown
       \/ /\ device = "open"
          /\ completionPort = "open"
          /\ registers = "mapped"
          /\ sharedBuffer = "mapped"
          /\ mmNotificationClientRegistered

\* C20: for an endpoint that passed the silence checks the tick computes
\* nextPosition = (positionRegister + host period bytes * activeChannelCount) mod
\* bufferSize, which is below bufferSize also when the chunk is larger than the ring
\* and when activeChannelCount is 0; and when the endpoint passed the re-read of the
\* generation and no signal is due, the tick stores nextPosition in positionRegister
\* whatever the cached handle is, signals nothing and leaves the host buffers.
C20_AdvanceWithoutSignal ==
    /\ \A size \in 1..ActualSize, positionRegister \in 0..ActualSize,
          channels \in {l.activeChannelCount : l \in Layouts} :
           positionRegister <= size
           => LET next == NextPositionRegister(positionRegister,
                                               frameChunkSize(channels), size)
              IN  /\ next < size
                  /\ next = (positionRegister
                             + periodFrameSize * sampleSize * channels) % size
    /\ [][/\ (CopyStep
               => LET r == regs[tick.i]
                  IN  /\ tick'.nextPositionRegister < r.bufferSize
                      /\ tick'.nextPositionRegister =
                             (r.positionRegister
                              + periodFrameSize * sampleSize * r.activeChannelCount)
                             % r.bufferSize)
          /\ (PublishStep /\ ~tick.notificationDue
               => /\ regs' = [regs EXCEPT ![tick.i].positionRegister =
                                              tick.nextPositionRegister]
                  /\ signalled' = signalled
                  /\ asioBuffers' = asioBuffers)]_vars

\* a tick advanced a ring smaller than its chunk while no handle was cached for the
\* endpoint
C20_ChunkLargerThanRing ==
    \E i \in Endpoints :
        /\ path[i] = "advance"
        /\ tickpc = "idle"
        /\ notificationHandles[i].handle = 0
        /\ regs[i].activeChannelCount = 3
        /\ regs[i].bufferSize = 4
        /\ regs[i].positionRegister = 2

\* the cached handle of endpoint i is of another generation number than the register
\* of an endpoint that asks for notifications
StaleAt(i) ==
    /\ regs[i].notificationCount > 0
    /\ GENERATION_NUMBER(regs[i].generation)
           # GENERATION_NUMBER(notificationHandles[i].generation)

\* C21: a tick calls updateNotificationHandles at most once, however many endpoints
\* have stale handles; an iteration makes the call exactly when its endpoint has
\* notificationCount > 0 and a cached handle of another generation number than the
\* snapshot and no earlier iteration of the tick has made it, before the silence
\* check, so for an inactive endpoint too; an iteration that does not make the call
\* leaves the request and the cached handles as they are.
C21_RefreshOncePerTick ==
    /\ [](tick.updateCalls <= 1)
    /\ [][EndpointStep
           => /\ tickpc' # "idle"
                   => (tick'.updateCalls = tick.updateCalls + 1
                       <=> (StaleAt(tick.i) /\ tick.updateCalls = 0))
              /\ ~(StaleAt(tick.i) /\ tick.updateCalls = 0)
                   => UNCHANGED <<handleQueueStarted, handleQueue, notificationHandles>>]_vars

\* the tick made the call for its first endpoint, which has no client and was given
\* silence, and has come to a second endpoint whose handle is stale as well
C21_SecondStaleEndpoint ==
    /\ tickpc = "endpoint"
    /\ tick.i = 2
    /\ tick.updateCalls = 1
    /\ path[1] = "silence"
    /\ ~GENERATION_IS_ACTIVE(regs[1].generation)
    /\ StaleAt(1)
    /\ StaleAt(2)

\* the fields of a register that the driver writes
ConfigurationOf(register) ==
    <<register.generation, register.activeChannelCount, register.bufferOffset,
      register.bufferSize, register.notificationCount>>

\* a step of the engine: of a tick, or of start() and stop() on the control thread
EngineStep == <<tickpc, tick, path, signalled, asioBuffers, ctrlpc>>' #
                  <<tickpc, tick, path, signalled, asioBuffers, ctrlpc>>

\* C22: while the registers are mapped no step of the engine changes generation,
\* activeChannelCount, bufferOffset, bufferSize or notificationCount of any endpoint;
\* positionRegister changes only in the publish step of the tick and only for the
\* endpoint the tick is processing, which the tick then leaves for the next one, so
\* at most once per endpoint per tick; and an iteration for endpoint i leaves every
\* other endpoint's register and target buffers as they are.
C22_SingleWriterPerField ==
    [][(registers = "mapped" /\ registers' = "mapped")
       => /\ EngineStep
               => \A i \in Endpoints : ConfigurationOf(regs'[i]) = ConfigurationOf(regs[i])
          /\ \A i \in Endpoints :
                regs'[i].positionRegister # regs[i].positionRegister
                => /\ PublishStep
                   /\ i = tick.i
                   /\ tickpc' = "idle" \/ tick'.i = i + 1
          /\ (TickRunning /\ EngineStep /\ ctrlpc' = ctrlpc)
               => /\ tickpc' # "idle" => tick'.i >= tick.i
                  /\ \A j \in Endpoints \ {tick.i} :
                        /\ regs'[j] = regs[j]
                        /\ \A b \in BufferIndexes :
                              asioBuffers'[b][j] = asioBuffers[b][j]]_vars

\* the tick has advanced the position of its first endpoint and has come to the
\* second, an active endpoint whose position is still where it was
C22_FirstAdvancedSecondUntouched ==
    /\ tickpc = "endpoint"
    /\ tick.i = 2
    /\ path[1] = "advance"
    /\ regs[1].positionRegister = 2
    /\ GENERATION_IS_ACTIVE(regs[2].generation)
    /\ regs[2].bufferSize = 4
    /\ regs[2].positionRegister = 0

\* the driver has left the register of endpoint i with the given generation and
\* layout, in a session that is running
SettledAs(i, gen, layout) ==
    /\ registers = "mapped"
    /\ ConfigurationOf(regs[i]) =
           <<gen, layout.activeChannelCount, layout.bufferOffset, layout.bufferSize,
             layout.notificationCount>>

\* the last tick advanced the position of endpoint i
Advanced(i) == path[i] \in {"advance", "signal"}

\* the generations of an endpoint with a client whose number the driver has advanced
\* at least once, so that a handle cache that was never filled is stale for them
IssuedGenerations ==
    {g \in GenerationValues : GENERATION_IS_ACTIVE(g) /\ GENERATION_NUMBER(g) > 0}

\* C23: if from some point on the driver leaves the register of an endpoint alone,
\* active, with bufferSize > 0 and its range inside the mapped region, and completes
\* the requests for handles, then under fair scheduling of ticks the endpoint is
\* not silenced for ever: again and again a tick advances its positionRegister.
C23_SelfHealing ==
    \A gen \in IssuedGenerations, layout \in SettlingLayouts :
        <>[]SettledAs(1, gen, layout) => []<>Advanced(1)

\* the iteration goes into mux or demux for its endpoint
RingCopyStep == tickpc = "endpoint" /\ tickpc' \in {"recheck", "fault"}

\* C24: for every snapshot that passes the silence checks the bytes of the shared
\* region that mux or demux reads or writes lie in [bufferOffset, bufferOffset +
\* bufferSize) and so inside the mapped region: no access of the tick falls outside
\* the mapping, the first run has min(frameChunkSize, bufferSize - positionRegister)
\* bytes from bufferOffset + positionRegister and ends inside the range, and the
\* second run has at most positionRegister bytes from bufferOffset, also when
\* frameChunkSize exceeds bufferSize.
C24_RingAccessInsideRange ==
    /\ [](tickpc # "fault")
    /\ [][RingCopyStep
           => LET r == regs[tick.i]
                  chunk == periodFrameSize * sampleSize * r.activeChannelCount
                  firstSize == Min(chunk, r.bufferSize - r.positionRegister)
                  secondSize == chunk - firstSize
              IN  /\ r.bufferOffset + r.bufferSize <= sharedBufferSize
                  /\ r.positionRegister + firstSize <= r.bufferSize
                  /\ secondSize <= r.positionRegister
                  /\ secondSize <= r.bufferSize]_vars

====
